---- MODULE Spec2Model ----
(***************************************************************************)
(* Model of core/parse_diff.py: the scanner SplittedDiff.from_string, the  *)
(* positional queries of SplittedDiff, TextRange.lines, the Hunk accessors *)
(* and the HunkHeader metadata parsers.                                    *)
(*                                                                         *)
(* A text is a sequence of characters; a character is a one-character      *)
(* string.  Positions are 0-based as in Python; Char(s, i) is s[i].        *)
(***************************************************************************)
EXTENDS Integers, Sequences, FiniteSets, TLC

VARIABLES text, offset, diff, called, arg, ret

vars == <<text, offset, diff, called, arg, ret>>

----------------------------------------------------------------------------
(* Bounds of the checked input space.                                      *)

MaxPieces == 4
MaxLen == 4
MaxGroups == 3

----------------------------------------------------------------------------
(* Python values.                                                          *)

Value(v) == [kind |-> "value", val |-> v]
None == [kind |-> "none", val |-> <<>>]
Raise(exc, args) == [kind |-> "raise", val |-> <<exc, args>>]

Char(s, i) == s[i + 1]

Min(x, y) == IF x < y THEN x ELSE y

\* s[i:j] for 0 <= i, 0 <= j: the end is clamped to len(s)
Slice(s, i, j) == SubSeq(s, i + 1, Min(j, Len(s)))

\* s.index(c): the first position of c, or -1 where Python raises ValueError
Index(s, c) ==
    IF \E i \in 0..(Len(s) - 1) : Char(s, i) = c
    THEN CHOOSE i \in 0..(Len(s) - 1) :
            /\ Char(s, i) = c
            /\ \A k \in 0..(i - 1) : Char(s, k) # c
    ELSE -1

\* fns.pairwise: the consecutive pairs of a sequence
pairwise(s) == [i \in 1..(Len(s) - 1) |-> <<s[i], s[i + 1]>>]

\* fns.tail: everything after the first element
tail(s) == IF s = <<>> THEN <<>> ELSE SubSeq(s, 2, Len(s))

\* fns.accumulate(lengths, initial=a): the running sums, starting with a
RECURSIVE accumulate(_, _)
accumulate(lengths, initial) ==
    IF lengths = <<>> THEN <<initial>>
    ELSE <<initial>> \o accumulate(Tail(lengths), initial + Head(lengths))

\* fns.flatten: the elements of the tuples of a sequence, in order
RECURSIVE flatten(_)
flatten(s) == IF s = <<>> THEN <<>> ELSE Head(s) \o flatten(Tail(s))

----------------------------------------------------------------------------
(* TextRange and its subclasses: cls is the Python class of the object.    *)

TextRange(cls, t, a, b) == [cls |-> cls, text |-> t, a |-> a, b |-> b]

\* TextRange.__eq__: the class is not compared
TextRangeEq(x, y) == x.text = y.text /\ x.a = y.a /\ x.b = y.b

----------------------------------------------------------------------------
(* SplittedDiff.from_string                                                *)

MarkerIds == <<"commit", "diff", "@@">>

MarkerChars(id) ==
    CASE id = "commit" -> <<"c", "o", "m", "m", "i", "t">>
      [] id = "diff"   -> <<"d", "i", "f", "f">>
      [] id = "@@"     -> <<"@", "@">>

factories(id) ==
    CASE id = "commit" -> "CommitHeader"
      [] id = "diff"   -> "FileHeader"
      [] id = "@@"     -> "Hunk"

\* '^' under re.M: the start of the text or just after a newline
AtLineStart(t, pos) == pos = 0 \/ Char(t, pos - 1) = "\n"

LiteralAt(t, pos, lit) ==
    /\ pos + Len(lit) <= Len(t)
    /\ \A k \in 0..(Len(lit) - 1) : Char(t, pos + k) = Char(lit, k)

\* MatchAt without the '^' anchor
MatchAtNoAnchor(t, pos) ==
    IF LiteralAt(t, pos, MarkerChars(MarkerIds[1])) THEN MarkerIds[1]
    ELSE IF LiteralAt(t, pos, MarkerChars(MarkerIds[2])) THEN MarkerIds[2]
    ELSE IF LiteralAt(t, pos, MarkerChars(MarkerIds[3])) THEN MarkerIds[3]
    ELSE ""

\* the alternative of (commit|diff|@@) that matches at pos, tried in order;
\* "" when r'^(commit|diff|@@)' does not match at pos
MatchAt(t, pos) ==
    IF ~AtLineStart(t, pos) THEN ""
    ELSE IF LiteralAt(t, pos, MarkerChars(MarkerIds[1])) THEN MarkerIds[1]
    ELSE IF LiteralAt(t, pos, MarkerChars(MarkerIds[2])) THEN MarkerIds[2]
    ELSE IF LiteralAt(t, pos, MarkerChars(MarkerIds[3])) THEN MarkerIds[3]
    ELSE ""

\* re.finditer from pos: the non-overlapping matches, left to right, as
\* (match.group(1), match.start())
RECURSIVE finditer(_, _)
finditer(t, pos) ==
    IF pos >= Len(t) THEN <<>>
    ELSE LET id == MatchAt(t, pos)
         IN  IF id # ""
             THEN <<<<id, pos>>>> \o finditer(t, pos + Len(MarkerChars(id)))
             ELSE finditer(t, pos + 1)

sections(t) == finditer(t, 0)

\* entities with the END marker at len(text) instead of len(text) + 1
entities_end_at_len(t, off) ==
    LET pairs == pairwise(sections(t) \o <<<<"END", Len(t)>>>>)
    IN  [i \in 1..Len(pairs) |->
            LET id    == pairs[i][1][1]
                start == pairs[i][1][2]
                end   == pairs[i][2][2]
            IN  TextRange(factories(id), Slice(t, start, end),
                          start + off, end + off)]

\* the entities in document order, before they are put into the containers
entities(t, off) ==
    LET pairs == pairwise(sections(t) \o <<<<"END", Len(t) + 1>>>>)
    IN  [i \in 1..Len(pairs) |->
            LET id    == pairs[i][1][1]
                start == pairs[i][1][2]
                end   == pairs[i][2][2]
            IN  TextRange(factories(id), Slice(t, start, end),
                          start + off, end + off)]

from_string(t, off) ==
    LET es == entities(t, off)
    IN  [commits |-> SelectSeq(es, LAMBDA e : e.cls = "CommitHeader"),
         headers |-> SelectSeq(es, LAMBDA e : e.cls = "FileHeader"),
         hunks   |-> SelectSeq(es, LAMBDA e : e.cls = "Hunk")]

----------------------------------------------------------------------------
(* The positional queries of SplittedDiff.                                 *)

\* hunk_for_pt with the end of the interval included
RECURSIVE hunk_for_pt_closed(_, _)
hunk_for_pt_closed(hunks, pt) ==
    IF hunks = <<>> THEN None
    ELSE IF Head(hunks).a <= pt /\ pt <= Head(hunks).b THEN Value(Head(hunks))
    ELSE hunk_for_pt_closed(Tail(hunks), pt)

\* the loop of hunk_for_pt over the hunks that are left
RECURSIVE hunk_for_pt(_, _)
hunk_for_pt(hunks, pt) ==
    IF hunks = <<>> THEN None
    ELSE IF Head(hunks).a <= pt /\ pt < Head(hunks).b THEN Value(Head(hunks))
    ELSE hunk_for_pt(Tail(hunks), pt)

\* max(candidates, key=lambda x: x.a) of a non-empty sequence: the first
\* element with the largest key
RECURSIVE MaxByA(_)
MaxByA(s) ==
    IF Len(s) = 1 THEN s[1]
    ELSE LET best == MaxByA(SubSeq(s, 1, Len(s) - 1))
             last == s[Len(s)]
         IN  IF last.a > best.a THEN last ELSE best

\* head_for_hunk taking the first header before the hunk
head_for_hunk_first(d, hunk) ==
    LET candidates == SelectSeq(d.headers, LAMBDA header : header.a < hunk.a)
    IN  IF candidates = <<>>
        THEN Raise("ValueError", <<>>)
        ELSE Value(candidates[1])

head_for_hunk(d, hunk) ==
    LET candidates == SelectSeq(d.headers, LAMBDA header : header.a < hunk.a)
    IN  IF candidates = <<>>
        THEN Raise("ValueError", <<>>)
        ELSE Value(MaxByA(candidates))

\* sorted(s, key=lambda x: x.a): a stable sort
RECURSIVE InsertByA(_, _)
InsertByA(s, x) ==
    IF s = <<>> THEN <<x>>
    ELSE IF s[Len(s)].a <= x.a THEN Append(s, x)
    ELSE Append(InsertByA(SubSeq(s, 1, Len(s) - 1), x), s[Len(s)])

RECURSIVE sorted(_)
sorted(s) ==
    IF s = <<>> THEN <<>>
    ELSE InsertByA(sorted(SubSeq(s, 1, Len(s) - 1)), s[Len(s)])

\* itertools.dropwhile(lambda x: x != head, s)
RECURSIVE dropwhile_ne(_, _)
dropwhile_ne(s, head) ==
    IF s = <<>> THEN <<>>
    ELSE IF ~TextRangeEq(Head(s), head) THEN dropwhile_ne(Tail(s), head)
    ELSE s

\* itertools.takewhile(lambda x: isinstance(x, Hunk), s)
RECURSIVE takewhile_hunk(_)
takewhile_hunk(s) ==
    IF s = <<>> THEN <<>>
    ELSE IF Head(s).cls = "Hunk" THEN <<Head(s)>> \o takewhile_hunk(Tail(s))
    ELSE <<>>

\* hunks_for_head without the tail(): the header itself ends the sequence
hunks_for_head_no_tail(d, head) ==
    Value(takewhile_hunk(dropwhile_ne(sorted(d.headers \o d.hunks), head)))

\* the elements the iterator of hunks_for_head yields
hunks_for_head(d, head) ==
    Value(takewhile_hunk(tail(dropwhile_ne(sorted(d.headers \o d.hunks), head))))

\* commit_for_hunk over all commits, not only those before the hunk
commit_for_hunk_any(d, hunk) ==
    LET candidates == d.commits
    IN  IF candidates = <<>>
        THEN None
        ELSE Value(MaxByA(candidates))

commit_for_hunk(d, hunk) ==
    LET candidates == SelectSeq(d.commits, LAMBDA commit : commit.a < hunk.a)
    IN  IF candidates = <<>>
        THEN None
        ELSE Value(MaxByA(candidates))

----------------------------------------------------------------------------
(* Hunk.mode_len, Hunk.header, Hunk.content                                *)

\* len(list(takewhile(lambda x: x == '@', s)))
RECURSIVE LeadingAts(_)
LeadingAts(s) ==
    IF s = <<>> \/ Head(s) # "@" THEN 0 ELSE 1 + LeadingAts(Tail(s))

mode_len(hunk) == LeadingAts(hunk.text) - 1

header(hunk) ==
    IF Index(hunk.text, "\n") = -1
    THEN Raise("ValueError", <<>>)
    ELSE LET content_start == Index(hunk.text, "\n") + 1
         IN  Value(TextRange("HunkHeader", Slice(hunk.text, 0, content_start),
                             hunk.a, hunk.a + content_start))

content(hunk) ==
    IF Index(hunk.text, "\n") = -1
    THEN Raise("ValueError", <<>>)
    ELSE LET content_start == Index(hunk.text, "\n") + 1
         IN  Value([cls |-> "HunkContent",
                    text |-> Slice(hunk.text, content_start, Len(hunk.text)),
                    a |-> hunk.a + content_start,
                    b |-> hunk.b,
                    mode_len |-> mode_len(hunk)])

----------------------------------------------------------------------------
(* The diff texts that are parsed: up to MaxPieces pieces, each a marker   *)
(* line, an unterminated run of '@', or a line with a marker word that is  *)
(* not at its start.                                                       *)

Pieces ==
    { <<"c", "o", "m", "m", "i", "t", "\n">>,
      <<"d", "i", "f", "f", "\n">>,
      <<"@", "@", "\n">>,
      <<"@", "@", "@">>,
      <<"x", "d", "i", "f", "f", "\n">> }

RECURSIVE Concats(_, _)
Concats(pieces, n) ==
    IF n = 0 THEN {<<>>}
    ELSE LET shorter == Concats(pieces, n - 1)
         IN  shorter \cup {t \o p : t \in shorter, p \in pieces}

DiffTexts == Concats(Pieces, MaxPieces)

\* the offsets that are passed: the default and another one
Offsets == {0, 3}

EmptyDiff == [commits |-> <<>>, headers |-> <<>>, hunks |-> <<>>]

Init ==
    /\ text \in DiffTexts
    /\ offset \in Offsets
    /\ diff = EmptyDiff
    /\ called = "input"
    /\ arg = <<>>
    /\ ret = None

FromString ==
    /\ called = "input"
    /\ diff' = from_string(text, offset)
    /\ called' = "from_string"
    /\ arg' = <<>>
    /\ ret' = None
    /\ UNCHANGED <<text, offset>>

\* a SplittedDiff has been returned
Parsed == called \notin {"input"}

\* The queries change nothing: each one is asked of the SplittedDiff as
\* from_string returned it, and what it returns is kept in ret.
Fresh == called = "from_string"

\* the points asked for: from before the first position of the text to
\* past the end of the last entity
Points == (offset - 1)..(Len(text) + offset + 2)

Elems(s) == {s[i] : i \in 1..Len(s)}

HunkForPt ==
    /\ Fresh
    /\ \E pt \in Points :
          /\ called' = "hunk_for_pt"
          /\ arg' = pt
          /\ ret' = hunk_for_pt(diff.hunks, pt)
    /\ UNCHANGED <<text, offset, diff>>

HeadForHunk ==
    /\ Fresh
    /\ \E hunk \in Elems(diff.hunks) :
          /\ called' = "head_for_hunk"
          /\ arg' = hunk
          /\ ret' = head_for_hunk(diff, hunk)
    /\ UNCHANGED <<text, offset, diff>>

HunksForHead ==
    /\ Fresh
    /\ \E head \in Elems(diff.headers) :
          /\ called' = "hunks_for_head"
          /\ arg' = head
          /\ ret' = hunks_for_head(diff, head)
    /\ UNCHANGED <<text, offset, diff>>

CommitForHunk ==
    /\ Fresh
    /\ \E hunk \in Elems(diff.hunks) :
          /\ called' = "commit_for_hunk"
          /\ arg' = hunk
          /\ ret' = commit_for_hunk(diff, hunk)
    /\ UNCHANGED <<text, offset, diff>>

HunkHeaderOf ==
    /\ Fresh
    /\ \E hunk \in Elems(diff.hunks) :
          /\ called' = "header"
          /\ arg' = hunk
          /\ ret' = header(hunk)
    /\ UNCHANGED <<text, offset, diff>>

HunkContentOf ==
    /\ Fresh
    /\ \E hunk \in Elems(diff.hunks) :
          /\ called' = "content"
          /\ arg' = hunk
          /\ ret' = content(hunk)
    /\ UNCHANGED <<text, offset, diff>>

Next ==
    \/ FromString
    \/ HunkForPt
    \/ HeadForHunk
    \/ HunksForHead
    \/ CommitForHunk
    \/ HunkHeaderOf
    \/ HunkContentOf

Spec == Init /\ [][Next]_vars

----------------------------------------------------------------------------
(* TextRange.lines                                                         *)

\* the line boundaries of str.splitlines: \n, \r, \v, \f, \x1c, \x1d,
\* \x1e, \x85, \u2028, \u2029 (and \r\n as one boundary)
LineBoundaries ==
    {"\n", "\r", "\f", "<VT>", "<FS>", "<GS>", "<RS>", "<NEL>", "<LS>", "<PS>"}

\* the length of the first line of a non-empty s, its line ending included
FirstLineLen(s) ==
    IF \A i \in 1..Len(s) : s[i] \notin LineBoundaries
    THEN Len(s)
    ELSE LET i == CHOOSE i \in 1..Len(s) :
                    /\ s[i] \in LineBoundaries
                    /\ \A k \in 1..(i - 1) : s[k] \notin LineBoundaries
         IN  IF s[i] = "\r" /\ i < Len(s) /\ s[i + 1] = "\n" THEN i + 1 ELSE i

\* str.splitlines(keepends=True)
RECURSIVE splitlines(_)
splitlines(s) ==
    IF s = <<>> THEN <<>>
    ELSE LET n == FirstLineLen(s)
         IN  <<SubSeq(s, 1, n)>> \o splitlines(SubSeq(s, n + 1, Len(s)))

\* lines() with the running sum started at 0 instead of self.a
lines_from_zero(r) ==
    LET ls  == splitlines(r.text)
        a_b == pairwise(accumulate([i \in 1..Len(ls) |-> Len(ls[i])], 0))
    IN  [i \in 1..Min(Len(ls), Len(a_b)) |->
            TextRange("TextRange", ls[i], a_b[i][1], a_b[i][2])]

\* TextRange.lines with the default factory
lines(r) ==
    LET ls  == splitlines(r.text)
        a_b == pairwise(accumulate([i \in 1..Len(ls) |-> Len(ls[i])], r.a))
    IN  [i \in 1..Min(Len(ls), Len(a_b)) |->
            TextRange("TextRange", ls[i], a_b[i][1], a_b[i][2])]

----------------------------------------------------------------------------
(* HunkHeader.safely_parse_metadata, parse, to_line_start                  *)

Digits == {"0", "1", "2", "3", "4", "5", "6", "7", "8", "9"}

DigitVal(c) ==
    CASE c = "0" -> 0 [] c = "1" -> 1 [] c = "2" -> 2 [] c = "3" -> 3
      [] c = "4" -> 4 [] c = "5" -> 5 [] c = "6" -> 6 [] c = "7" -> 7
      [] c = "8" -> 8 [] c = "9" -> 9

\* int(s) of a non-empty string of digits
RECURSIVE int(_)
int(s) ==
    IF Len(s) = 1 THEN DigitVal(s[1])
    ELSE 10 * int(SubSeq(s, 1, Len(s) - 1)) + DigitVal(s[Len(s)])

\* s.lstrip("@")
RECURSIVE lstrip_at(_)
lstrip_at(s) ==
    IF s = <<>> \/ Head(s) # "@" THEN s ELSE lstrip_at(Tail(s))

\* s.split("@", 1)[0]
split_at_first(s) ==
    IF Index(s, "@") = -1 THEN s ELSE Slice(s, 0, Index(s, "@"))

\* the position after the run of digits that starts at pos (\d+ is greedy)
RECURSIVE DigitsEnd(_, _)
DigitsEnd(s, pos) ==
    IF pos < Len(s) /\ Char(s, pos) \in Digits THEN DigitsEnd(s, pos + 1) ELSE pos

IsDigitAt(s, pos) == pos < Len(s) /\ Char(s, pos) \in Digits

\* SAFE_PARSE_HUNK_HEADER.findall(s) from pos: the (start, length) groups of
\* the non-overlapping matches of [-+](\d+)(?:,(\d+))?, an unmatched length
\* group being ""
RECURSIVE findall(_, _)
findall(s, pos) ==
    IF pos >= Len(s) THEN <<>>
    ELSE IF Char(s, pos) \in {"-", "+"} /\ IsDigitAt(s, pos + 1)
    THEN LET e1 == DigitsEnd(s, pos + 1)
             hasLength == e1 < Len(s) /\ Char(s, e1) = "," /\ IsDigitAt(s, e1 + 1)
             e2 == IF hasLength THEN DigitsEnd(s, e1 + 1) ELSE e1
             start == Slice(s, pos + 1, e1)
             length == IF hasLength THEN Slice(s, e1 + 1, e2) ELSE <<>>
         IN  <<<<start, length>>>> \o findall(s, e2)
    ELSE findall(s, pos + 1)

safely_parse_metadata(t) ==
    LET groups == findall(split_at_first(lstrip_at(t)), 0)
    IN  [i \in 1..Len(groups) |->
            <<int(groups[i][1]),
              int(IF groups[i][2] = <<>> THEN <<"1">> ELSE groups[i][2])>>]

\* parse raising for every header with two pairs or more
parse_ge(t) ==
    LET metadata == safely_parse_metadata(t)
    IN  IF Len(metadata) >= 2 THEN Raise("UnsupportedCombinedDiff", t)
        ELSE IF Len(metadata) # 2 THEN Raise("AssertionError", <<>>)
        ELSE Value(flatten(metadata))

\* HunkHeader.parse; the assert statement is executed
parse(t) ==
    LET metadata == safely_parse_metadata(t)
    IN  IF Len(metadata) > 2 THEN Raise("UnsupportedCombinedDiff", t)
        ELSE IF Len(metadata) # 2 THEN Raise("AssertionError", <<>>)
        ELSE Value(flatten(metadata))

\* to_line_start returning the start of the first pair
to_line_start_first(t) ==
    LET metadata == safely_parse_metadata(t)
    IN  IF metadata = <<>> THEN Raise("IndexError", <<>>)
        ELSE Value(metadata[1][1])

\* HunkHeader.to_line_start: metadata[-1][0]
to_line_start(t) ==
    LET metadata == safely_parse_metadata(t)
    IN  IF metadata = <<>> THEN Raise("IndexError", <<>>)
        ELSE Value(metadata[Len(metadata)][1])

----------------------------------------------------------------------------
(* The texts whose lines are taken: up to MaxLen characters.               *)

LineAlphabet == {<<"x">>, <<"\n">>, <<"\r">>, <<"<LS>">>}

LineTexts == Concats(LineAlphabet, MaxLen)

InitLines ==
    /\ text \in LineTexts
    /\ offset \in Offsets
    /\ diff = EmptyDiff
    /\ called = "input"
    /\ arg = <<>>
    /\ ret = None

Lines ==
    /\ called = "input"
    /\ called' = "lines"
    /\ arg' = TextRange("TextRange", text, offset, offset + Len(text))
    /\ ret' = Value(lines(arg'))
    /\ UNCHANGED <<text, offset, diff>>

NextLines == Lines

SpecLines == InitLines /\ [][NextLines]_vars

----------------------------------------------------------------------------
(* The hunk headers that are parsed: a run of '@', up to MaxGroups pieces  *)
(* of range groups and other characters, and an end; and three headers     *)
(* written out.                                                            *)

HeaderLeads == { <<"@", "@">>, <<"@", "@", "@">> }

GroupPieces ==
    { <<" ", "-", "1", ",", "2">>,
      <<" ", "+", "5">>,
      <<" ", "-", "3", "0", ",", "1", "4">>,
      <<" ", "+", "6", ",">>,
      <<"7">>,
      <<" ", "x">> }

HeaderEnds == { <<>>, <<" ", "@", "@">>, <<" ", "@", "@", " ", "+", "9", "\n">> }

HeaderNormal ==
    <<"@", "@", " ", "-", "6", "8", "5", ",", "8", " ", "+", "6",
      "8", "6", ",", "1", "4", " ", "@", "@", " ", "f", "u", "n",
      "c", " ", "f", "o", "o", "(", ")", " ", "{">>

HeaderNoLength ==
    <<"@", "@", " ", "-", "1", "0", " ", "+", "1", "0", " ", "@",
      "@">>

HeaderCombined ==
    <<"@", "@", "@", " ", "-", "1", ",", "2", " ", "-", "3", ",",
      "4", " ", "+", "5", ",", "6", " ", "@", "@", "@">>

HeaderTexts ==
    {l \o g \o e : l \in HeaderLeads, g \in Concats(GroupPieces, MaxGroups),
                   e \in HeaderEnds}
    \cup {HeaderNormal, HeaderNoLength, HeaderCombined}

InitHeader ==
    /\ text \in HeaderTexts
    /\ offset = 0
    /\ diff = EmptyDiff
    /\ called = "input"
    /\ arg = <<>>
    /\ ret = None

SafelyParseMetadata ==
    /\ called = "input"
    /\ called' = "safely_parse_metadata"
    /\ arg' = TextRange("HunkHeader", text, offset, offset + Len(text))
    /\ ret' = Value(safely_parse_metadata(text))
    /\ UNCHANGED <<text, offset, diff>>

Parse ==
    /\ called = "input"
    /\ called' = "parse"
    /\ arg' = TextRange("HunkHeader", text, offset, offset + Len(text))
    /\ ret' = parse(text)
    /\ UNCHANGED <<text, offset, diff>>

ToLineStart ==
    /\ called = "input"
    /\ called' = "to_line_start"
    /\ arg' = TextRange("HunkHeader", text, offset, offset + Len(text))
    /\ ret' = to_line_start(text)
    /\ UNCHANGED <<text, offset, diff>>

NextHeader ==
    \/ SafelyParseMetadata
    \/ Parse
    \/ ToLineStart

SpecHeader == InitHeader /\ [][NextHeader]_vars

----------------------------------------------------------------------------
(* Notions the properties are stated with.                                 *)

AllEntities == Elems(diff.commits) \cup Elems(diff.headers) \cup Elems(diff.hunks)

\* the positions of the text where a line starts with a marker
MarkerStarts ==
    {p \in 0..(Len(text) - 1) :
        /\ p = 0 \/ text[p] = "\n"
        /\ \E id \in {"commit", "diff", "@@"} : LiteralAt(text, p, MarkerChars(id))}

SetMin(S) == CHOOSE x \in S : \A y \in S : x <= y

StrictlyAscending(s) == \A i, j \in 1..Len(s) : i < j => s[i].a < s[j].a

\* f follows e directly when the entities of S are ordered by start
Consecutive(e, f, S) == e.a < f.a /\ ~\E g \in S : e.a < g.a /\ g.a < f.a

IsLast(e, S) == \A f \in S : f.a <= e.a

IsValue(r, v) == r.kind = "value" /\ r.val = v

Raises(r, exc) == r.kind = "raise" /\ r.val[1] = exc

\* e.text is the characters of the input at [e.a - offset, e.b - offset),
\* as far as the input reaches
TextAt(e) ==
    /\ Len(e.text) = Min(e.b - offset, Len(text)) - (e.a - offset)
    /\ \A k \in 0..(Len(e.text) - 1) : Char(e.text, k) = Char(text, e.a - offset + k)

----------------------------------------------------------------------------
(* Properties of SplittedDiff.from_string, checked under Spec.             *)

\* C1: the entities of from_string(text, offset) are in strictly ascending
\* order of a within each collection; merged and ordered by a, each entity
\* ends where the next starts; the first starts at the first line-start
\* marker plus offset; without a marker all three collections are empty.
C1_Partition ==
    Parsed =>
        /\ StrictlyAscending(diff.commits)
        /\ StrictlyAscending(diff.headers)
        /\ StrictlyAscending(diff.hunks)
        /\ \A e, f \in AllEntities : e # f => e.a # f.a
        /\ \A e, f \in AllEntities : Consecutive(e, f, AllEntities) => e.b = f.a
        /\ MarkerStarts # {} =>
              /\ AllEntities # {}
              /\ SetMin({e.a : e \in AllEntities}) = SetMin(MarkerStarts) + offset
        /\ MarkerStarts = {} => diff = EmptyDiff

C1_Witness ==
    /\ Parsed
    /\ diff.commits # <<>> /\ diff.headers # <<>> /\ diff.hunks # <<>>
    /\ offset > 0
    /\ SetMin(MarkerStarts) > 0

\* C9 as claimed: every entity has b = a + len(text), holds the characters
\* of the input at [a - offset, b - offset), ends within the input, and the
\* last entity ends at len(text) + offset.
C9_AsClaimed ==
    Parsed =>
        \A e \in AllEntities :
            /\ e.b = e.a + Len(e.text)
            /\ TextAt(e)
            /\ e.b <= Len(text) + offset
            /\ IsLast(e, AllEntities) => e.b = Len(text) + offset

\* C9, amended: every entity holds the characters of the input from
\* a - offset on; every entity but the last has b = a + len(text) and ends
\* within the input; the last entity holds the input to its end and has
\* b = len(text of the input) + offset + 1 = a + len(text) + 1.
C9_EntityRanges ==
    Parsed =>
        \A e \in AllEntities :
            /\ TextAt(e)
            /\ ~IsLast(e, AllEntities) =>
                  /\ e.b = e.a + Len(e.text)
                  /\ e.b <= Len(text) + offset
            /\ IsLast(e, AllEntities) =>
                  /\ e.b = Len(text) + offset + 1
                  /\ e.b = e.a + Len(e.text) + 1

C9_Witness ==
    /\ Parsed
    /\ Cardinality(AllEntities) >= 3
    /\ offset > 0
    /\ \E e \in AllEntities : IsLast(e, AllEntities) /\ e.b = e.a + Len(e.text) + 1

----------------------------------------------------------------------------
(* Properties of the positional queries, checked under Spec.               *)

\* C2: hunk_for_pt(pt) returns the hunk h with h.a <= pt < h.b when there is
\* one, and there is at most one; it returns none otherwise; it returns h
\* for h.a and does not return h for h.b.
C2_HunkForPt ==
    called = "hunk_for_pt" =>
        LET containing == {h \in Elems(diff.hunks) : h.a <= arg /\ arg < h.b}
        IN  /\ Cardinality(containing) <= 1
            /\ containing # {} => ret.kind = "value" /\ ret.val \in containing
            /\ containing = {} => ret.kind = "none"
            /\ \A h \in Elems(diff.hunks) :
                  /\ arg = h.a => IsValue(ret, h)
                  /\ arg = h.b => ~IsValue(ret, h)

C2_Witness ==
    /\ called = "hunk_for_pt"
    /\ \E h, g \in Elems(diff.hunks) : h # g /\ arg = h.b /\ IsValue(ret, g)

\* C3: head_for_hunk(h) returns the header that starts before h.a with no
\* other header between it and h; when no header starts before h.a the call
\* ends in an error.
C3_HeadForHunk ==
    called = "head_for_hunk" =>
        LET before == {H \in Elems(diff.headers) : H.a < arg.a}
        IN  /\ before # {} =>
                  /\ ret.kind = "value"
                  /\ ret.val \in before
                  /\ ~\E h2 \in Elems(diff.headers) :
                        ret.val.a < h2.a /\ h2.a < arg.a
            /\ before = {} => ret.kind = "raise"

C3_Witness ==
    /\ called = "head_for_hunk"
    /\ ret.kind = "value"
    /\ \E H \in Elems(diff.headers) : H.a < ret.val.a

\* C4: hunks_for_head(head) yields, in ascending order of a and without
\* repetition, exactly the hunks after head with no header between head and
\* the hunk, which are the hunks whose head_for_hunk is head; it yields
\* nothing when a header follows head directly or when nothing follows head.
C4_HunksForHead ==
    called = "hunks_for_head" =>
        LET section == {h \in Elems(diff.hunks) :
                           /\ arg.a < h.a
                           /\ ~\E h2 \in Elems(diff.headers) :
                                 arg.a < h2.a /\ h2.a < h.a}
            after == {e \in Elems(diff.headers) \cup Elems(diff.hunks) : arg.a < e.a}
        IN  /\ ret.kind = "value"
            /\ StrictlyAscending(ret.val)
            /\ Elems(ret.val) = section
            /\ section = {h \in Elems(diff.hunks) : IsValue(head_for_hunk(diff, h), arg)}
            /\ after = {} => ret.val = <<>>
            /\ \A e \in after :
                  (e.cls = "FileHeader" /\ \A f \in after : e.a <= f.a) => ret.val = <<>>

C4_Witness ==
    /\ called = "hunks_for_head"
    /\ Len(ret.val) >= 2
    /\ \E c \in Elems(diff.commits) : arg.a < c.a /\ c.a < ret.val[2].a

\* C7: commit_for_hunk(h) never fails; it returns none exactly when no commit
\* starts before h.a, and otherwise the commit that starts before h.a with no
\* other commit between it and h.
C7_CommitForHunk ==
    called = "commit_for_hunk" =>
        LET before == {C \in Elems(diff.commits) : C.a < arg.a}
        IN  /\ ret.kind # "raise"
            /\ ret.kind = "none" <=> before = {}
            /\ before # {} =>
                  /\ ret.kind = "value"
                  /\ ret.val \in before
                  /\ ~\E c2 \in Elems(diff.commits) :
                        ret.val.a < c2.a /\ c2.a < arg.a

C7_Witness ==
    /\ called = "commit_for_hunk"
    /\ ret.kind = "value"
    /\ \E C \in Elems(diff.commits) : C.a < ret.val.a
    /\ \E C \in Elems(diff.commits) : C.a > arg.a

----------------------------------------------------------------------------
(* Properties of Hunk.header and Hunk.content, checked under Spec.         *)

\* C10: for every hunk h of from_string, header() and content() return a
\* value; header().a = h.a, header().b = content().a = h.a +
\* len(header().text), content().b = h.b, header().text followed by
\* content().text is h.text, header().text is the first line of h.text with
\* its newline, and content().mode_len = h.mode_len() = the number of
\* leading '@' of h.text minus 1.
C10_HeaderContentSplit ==
    called \in {"header", "content"} =>
        LET hd == header(arg)
            ct == content(arg)
        IN  /\ ret.kind = "value"
            /\ hd.kind = "value" /\ ct.kind = "value"
            /\ called = "header" => ret = hd
            /\ called = "content" => ret = ct
            /\ hd.val.a = arg.a
            /\ hd.val.b = ct.val.a
            /\ hd.val.b = arg.a + Len(hd.val.text)
            /\ ct.val.b = arg.b
            /\ hd.val.text \o ct.val.text = arg.text
            /\ hd.val.text[Len(hd.val.text)] = "\n"
            /\ \A k \in 1..(Len(hd.val.text) - 1) : hd.val.text[k] # "\n"
            /\ ct.val.mode_len = mode_len(arg)
            /\ \A k \in 1..(ct.val.mode_len + 1) : arg.text[k] = "@"
            /\ arg.text[ct.val.mode_len + 2] # "@"

----------------------------------------------------------------------------
(* Properties of TextRange.lines, checked under SpecLines.                 *)

RECURSIVE Joined(_)
Joined(ts) == IF ts = <<>> THEN <<>> ELSE Head(ts).text \o Joined(Tail(ts))

\* C8: the texts of r.lines() joined in order are r.text; the first line
\* starts at r.a; every line has b = a + len(text) and ends where the next
\* starts; every line is non-empty and holds its line ending, which only the
\* last line may lack; an empty text has no lines.
C8_LinesRoundTrip ==
    called = "lines" =>
        LET L == ret.val
        IN  /\ Joined(L) = arg.text
            /\ arg.text = <<>> => L = <<>>
            /\ L # <<>> => L[1].a = arg.a
            /\ \A i \in 1..Len(L) :
                  /\ L[i].text # <<>>
                  /\ L[i].b = L[i].a + Len(L[i].text)
                  /\ \A k \in 1..(Len(L[i].text) - 1) :
                        L[i].text[k] \in LineBoundaries =>
                            /\ k = Len(L[i].text) - 1
                            /\ L[i].text[k] = "\r"
                            /\ L[i].text[k + 1] = "\n"
            /\ \A i \in 1..(Len(L) - 1) :
                  /\ L[i].b = L[i + 1].a
                  /\ L[i].text[Len(L[i].text)] \in LineBoundaries

C8_Witness ==
    /\ called = "lines"
    /\ arg.a > 0
    /\ Len(ret.val) >= 2
    /\ ret.val[Len(ret.val)].text[Len(ret.val[Len(ret.val)].text)] \notin LineBoundaries
    /\ \E i \in 1..Len(ret.val) : Len(ret.val[i].text) >= 3

----------------------------------------------------------------------------
(* Properties of HunkHeader.parse and to_line_start, checked under         *)
(* SpecHeader.  P is what safely_parse_metadata extracts from the header.  *)

P == safely_parse_metadata(text)

====
